---- MODULE Spec2Model ----
(***************************************************************************)
(* Model of erosion/remap_gradient.py: the red->green lookup table built   *)
(* from an erosion texture (build_red_to_green_map), the bilinear sampler  *)
(* (bilinear_sample) and the per-column resampling loop (remap_gradient).  *)
(*                                                                         *)
(* Numbers.  The program computes in float64.  The model computes in exact *)
(* rationals <<n, d>> (d > 0, lowest terms) extended with the two special  *)
(* values a float division by zero produces: Inf = <<1, 0>> (x / 0 with    *)
(* x > 0) and NaN = <<0, 0>> (0 / 0, and np.nan as the "unresolved" mark). *)
(* Rounding error of float64 is not modelled.                              *)
(***************************************************************************)
EXTENDS Integers, Sequences, FiniteSets, TLC

VARIABLES pc, erosion, gradient, fade_in, fade_out, duration,
          red_to_green, col, locals, result, written, output, error, sx, sy, sampled

vars == <<pc, erosion, gradient, fade_in, fade_out, duration,
          red_to_green, col, locals, result, written, output, error, sx, sy, sampled>>

(***************************************************************************)
(* Program constants.                                                      *)
(***************************************************************************)
TableSize == 256
MaxByte == 255

(***************************************************************************)
(* Bounds of the model.                                                    *)
(***************************************************************************)
NumCand == 5
MaxW == 4
MaxH == 4

(***************************************************************************)
(* Extended rational arithmetic.                                           *)
(***************************************************************************)
Abs(n) == IF n < 0 THEN -n ELSE n

RECURSIVE GCD(_, _)
GCD(a, b) == IF b = 0 THEN a ELSE GCD(b, a % b)

Norm(n, d) ==
  LET g == GCD(Abs(n), Abs(d))
      s == IF d < 0 THEN -1 ELSE 1
  IN <<s * (n \div g), s * (d \div g)>>

Q(n) == <<n, 1>>
NaN == <<0, 0>>
Inf == <<1, 0>>
IsNaN(a) == a = NaN
IsNum(a) == a[2] > 0

QAdd(a, b) ==
  IF IsNaN(a) \/ IsNaN(b) THEN NaN
  ELSE IF a = Inf \/ b = Inf THEN Inf
  ELSE LET l == (a[2] \div GCD(a[2], b[2])) * b[2]
       IN Norm(a[1] * (l \div a[2]) + b[1] * (l \div b[2]), l)

QNeg(a) == <<-a[1], a[2]>>
QSub(a, b) == IF IsNaN(a) \/ IsNaN(b) THEN NaN ELSE QAdd(a, QNeg(b))

QMul(a, b) ==
  IF IsNaN(a) \/ IsNaN(b) THEN NaN
  ELSE IF a = Inf \/ b = Inf
       THEN (IF a[1] = 0 \/ b[1] = 0 THEN NaN ELSE Inf)
  ELSE LET g1 == GCD(Abs(a[1]), b[2])
           g2 == GCD(Abs(b[1]), a[2])
       IN Norm((a[1] \div g1) * (b[1] \div g2), (a[2] \div g2) * (b[2] \div g1))

\* float division of a non-negative number: x / 0 is inf for x > 0, nan for x = 0
QDiv(a, b) ==
  IF IsNaN(a) \/ IsNaN(b) THEN NaN
  ELSE IF b[1] = 0 THEN (IF a[1] = 0 THEN NaN ELSE Inf)
  ELSE QMul(a, Norm(b[2], b[1]))

QLe(a, b) == a[1] * b[2] <= b[1] * a[2]
QLt(a, b) == a[1] * b[2] < b[1] * a[2]

QFloor(a) == a[1] \div a[2]

\* np.clip(x, lo, hi) on a float: nan stays nan, inf is clipped
QClip(a, lo, hi) ==
  IF IsNaN(a) THEN NaN
  ELSE IF a = Inf THEN hi
  ELSE IF QLt(a, lo) THEN lo
  ELSE IF QLt(hi, a) THEN hi
  ELSE a

\* Python's round(): to the nearest integer, ties to the even one
QRound(a) ==
  LET f == QFloor(a)
      twice == QSub(QMul(Q(2), a), Q(2 * f))      \* 2 * (a - f), in [0, 2)
  IN IF QLt(twice, Q(1)) THEN f
     ELSE IF QLt(Q(1), twice) THEN f + 1
     ELSE IF f % 2 = 0 THEN f ELSE f + 1

RECURSIVE SeqSum(_)
SeqSum(s) == IF s = <<>> THEN 0 ELSE Head(s) + SeqSum(Tail(s))

\* a mean rounded down to an integer
MeanFloor(s) == Q(SeqSum(s) \div Len(s))

\* np.mean of a uint8 array
Mean(s) == Norm(SeqSum(s), Len(s))

(***************************************************************************)
(* build_red_to_green_map                                                  *)
(***************************************************************************)
\* a channel test that is off by one
ChannelOKOffByOne(ero, c) == c + 1 < ero.channels

\* erosion[:, :, 0].flatten() / erosion[:, :, 1].flatten(): the channel must exist
ChannelOK(ero, c) == c < ero.channels

GreensOf(ero, r) ==
  LET hit == SelectSeq(ero.pixels, LAMBDA p : p[1] = r)
  IN [i \in 1..Len(hit) |-> hit[i][2]]

\* the loop over r in range(256): the mean of the greens seen with r, or nan
RawTable(ero) ==
  [r \in 0..(TableSize - 1) |->
     LET gs == GreensOf(ero, r)
     IN IF gs # <<>> THEN Mean(gs) ELSE NaN]

ValidSet(t) == {r \in DOMAIN t : ~IsNaN(t[r])}

\* the members of S within lo..hi, ascending
RECURSIVE SortedRange(_, _, _)
SortedRange(S, lo, hi) ==
  IF lo > hi THEN <<>>
  ELSE IF lo = hi THEN (IF lo \in S THEN <<lo>> ELSE <<>>)
  ELSE LET mid == (lo + hi) \div 2
       IN SortedRange(S, lo, mid) \o SortedRange(S, mid + 1, hi)

SortedSeq(S) == SortedRange(S, 0, TableSize - 1)

\* np.where(valid_mask)[0]
ValidIndices(t) == SortedSeq(ValidSet(t))

\* an interpolation that repeats the lower anchor instead of blending
InterpStep(x, xp, fp) ==
  LET n == Len(xp)
  IN IF x < xp[1] THEN fp[1]
     ELSE IF x >= xp[n] THEN fp[n]
     ELSE fp[CHOOSE k \in 1..(n - 1) : xp[k] <= x /\ x < xp[k + 1]]

\* np.interp(x, xp, fp) at one integer x; xp ascending, fp[j] the value at xp[j]
Interp(x, xp, fp) ==
  LET n == Len(xp)
  IN IF x < xp[1] THEN fp[1]
     ELSE IF x >= xp[n] THEN fp[n]
     ELSE LET j == CHOOSE k \in 1..(n - 1) : xp[k] <= x /\ x < xp[k + 1]
              slope == QDiv(QSub(fp[j + 1], fp[j]), Q(xp[j + 1] - xp[j]))
          IN QAdd(QMul(slope, Q(x - xp[j])), fp[j])

\* np.linspace(0, 255, 256)
Linspace255 ==
  [i \in 0..(TableSize - 1) |-> QMul(Q(i), QDiv(Q(MaxByte), Q(TableSize - 1)))]

\* a fill without the fallback for a texture with no samples
FillTableNoFallback(raw) ==
  LET valid == ValidSet(raw)
  IN IF valid # {} /\ valid # DOMAIN raw
     THEN LET xp == ValidIndices(raw)
              fp == [j \in 1..Len(xp) |-> raw[xp[j]]]
          IN [i \in 0..(TableSize - 1) |-> Interp(i, xp, fp)]
     ELSE raw

\* lines 82-90
FillTable(raw) ==
  LET valid == ValidSet(raw)
  IN IF valid # {} /\ valid # DOMAIN raw
     THEN LET xp == ValidIndices(raw)
              fp == [j \in 1..Len(xp) |-> raw[xp[j]]]
          IN [i \in 0..(TableSize - 1) |-> Interp(i, xp, fp)]
     ELSE IF valid = {} THEN Linspace255
     ELSE raw

build_red_to_green_map(ero) == FillTable(RawTable(ero))


(***************************************************************************)
(* bilinear_sample                                                         *)
(***************************************************************************)
\* np.floor(x).astype(int): the cast of nan to int is undefined; nanInt is what
\* the build makes of it
CastInt(a, nanInt) == IF IsNaN(a) THEN nanInt ELSE QFloor(a)

\* the outcomes of the undefined cast: the smallest integer (x86-64; IntMin
\* stands for it, an index far below -W) or 0 (aarch64)
IntMin == -2147483647
NaNToInt == {IntMin, 0}

Min(a, b) == IF a <= b THEN a ELSE b

\* a clamp that forgets the lower bound
ClipCoordUpperOnly(a, dim) ==
  IF IsNaN(a) THEN NaN
  ELSE IF a = Inf \/ QLt(Q(dim - 1), a) THEN Q(dim - 1)
  ELSE a

\* lines 29-30: np.clip(x, 0, w - 1), np.clip(y, 0, h - 1)
ClipCoord(a, dim) == QClip(a, Q(0), Q(dim - 1))

\* lines 34-35: np.minimum(x0 + 1, w - 1)
NextIndex(i0, dim) == Min(i0 + 1, dim - 1)

\* lines 29-48: the four taps and their weights
Taps(img, x, y, nanInt) ==
  LET cx == ClipCoord(x, img.w)
      cy == ClipCoord(y, img.h)
      x0 == CastInt(cx, nanInt)
      y0 == CastInt(cy, nanInt)
      fx == QSub(cx, Q(x0))
      fy == QSub(cy, Q(y0))
  IN [x0 |-> x0, y0 |-> y0,
      x1 |-> NextIndex(x0, img.w), y1 |-> NextIndex(y0, img.h),
      fx |-> fx, fy |-> fy,
      w00 |-> QMul(QSub(Q(1), fx), QSub(Q(1), fy)),
      w10 |-> QMul(fx, QSub(Q(1), fy)),
      w01 |-> QMul(QSub(Q(1), fx), fy),
      w11 |-> QMul(fx, fy)]

\* numpy indexing: -n <= i < n, a negative index counts from the end
IndexOK(i, n) == -n <= i /\ i < n
PyIndex(i, n) == IF i < 0 THEN i + n ELSE i
Pixel(img, y, x) == img.data[PyIndex(y, img.h)][PyIndex(x, img.w)]

\* lines 50-53: the blend, per channel; an index out of range raises IndexError
bilinear_sample(img, x, y, nanInt) ==
  LET t == Taps(img, x, y, nanInt)
  IN IF ~(IndexOK(t.x0, img.w) /\ IndexOK(t.x1, img.w)
          /\ IndexOK(t.y0, img.h) /\ IndexOK(t.y1, img.h))
     THEN [err |-> "IndexError", taps |-> t, value |-> <<>>]
     ELSE [err |-> "none", taps |-> t,
           value |-> [c \in 1..img.channels |->
              QAdd(QAdd(QMul(Q(Pixel(img, t.y0, t.x0)[c]), t.w00),
                        QMul(Q(Pixel(img, t.y0, t.x1)[c]), t.w10)),
                   QAdd(QMul(Q(Pixel(img, t.y1, t.x0)[c]), t.w01),
                        QMul(Q(Pixel(img, t.y1, t.x1)[c]), t.w11)))]]


(***************************************************************************)
(* remap_gradient, one column (lines 127-159)                              *)
(***************************************************************************)
Epsilon == <<1, 1000>>

\* line 130
Attack(img, c) == IF img.w > 1 THEN Norm(c, img.w - 1) ELSE <<1, 2>>

\* a red value that forgets the inversion of the attack
RedValueDirect(img, c) ==
  LET rv == QRound(QMul(Q(MaxByte), Attack(img, c)))
  IN IF rv < 0 THEN 0 ELSE IF rv > MaxByte THEN MaxByte ELSE rv

\* lines 131-132
RedValue(img, c) ==
  LET rv == QRound(QMul(Q(MaxByte), QSub(Q(1), Attack(img, c))))
  IN IF rv < 0 THEN 0 ELSE IF rv > MaxByte THEN MaxByte ELSE rv

\* lines 135-136
Release(img, table, c) == QDiv(table[RedValue(img, c)], Q(MaxByte))

\* line 139
KeyPress(img, fi, c) == QMul(fi, Attack(img, c))

\* lines 113, 140
ComputedKeyRelease(img, table, fo, dur, c) ==
  QAdd(QSub(dur, fo), QMul(Release(img, table, c), fo))

\* lines 143-144
GuardRelease(kp, kr) ==
  IF QLe(kr, QAdd(kp, Epsilon)) THEN QAdd(kp, Epsilon) ELSE kr

\* line 147: np.linspace(0, 1, grad_h)[row]
NormalizedTime(img, row) == IF img.h > 1 THEN Norm(row, img.h - 1) ELSE Q(0)

\* line 151
GlobalTime(kp, kr, nt) == QAdd(kp, QMul(nt, QSub(kr, kp)))

\* line 152
SrcX(img, gt, dur) == QMul(QClip(QDiv(gt, dur), Q(0), Q(1)), Q(img.w - 1))

\* line 155
SrcY(img, nt) == QMul(nt, Q(img.h - 1))

\* lines 130-155: the locals of the loop body for column c
ColumnLocals(img, table, fi, fo, dur, c) ==
  LET kp == KeyPress(img, fi, c)
      krc == ComputedKeyRelease(img, table, fo, dur, c)
      kr == GuardRelease(kp, krc)
      rows == 0..(img.h - 1)
      gts == [row \in rows |-> GlobalTime(kp, kr, NormalizedTime(img, row))]
  IN [attack |-> Attack(img, c),
      red_value |-> RedValue(img, c),
      release |-> Release(img, table, c),
      key_press |-> kp,
      computed_key_release |-> krc,
      key_release |-> kr,
      global_times |-> gts,
      src_xs |-> [row \in rows |-> SrcX(img, gts[row], dur)],
      src_ys |-> [row \in rows |-> SrcY(img, NormalizedTime(img, row))]]

\* line 158: one bilinear_sample per row of the column
SampleColumn(img, loc, nanInt) ==
  [row \in 0..(img.h - 1) |->
     bilinear_sample(img, loc.src_xs[row], loc.src_ys[row], nanInt)]

\* a write that runs on to the right edge: result[:, col:] = sampled
WriteColumnSlice(res, c, samples) ==
  [k \in DOMAIN res |->
     IF k >= c THEN [row \in DOMAIN samples |-> samples[row].value] ELSE res[k]]

\* line 159: result[:, col] = sampled
WriteColumn(res, c, samples) ==
  [res EXCEPT ![c] = [row \in DOMAIN samples |-> samples[row].value]]

\* lines 121-124: np.zeros
Zeros(img) ==
  [c \in 0..(img.w - 1) |-> [row \in 0..(img.h - 1) |-> [k \in 1..img.channels |-> Q(0)]]]

\* a quantisation that rounds to the nearest integer
QuantizeRound(v, nanByte) ==
  LET cv == QClip(v, Q(0), Q(MaxByte))
  IN IF IsNaN(cv) THEN nanByte ELSE QRound(cv)

\* line 161: np.clip(v, 0, 255).astype(np.uint8); the cast of nan is undefined
\* and nanByte is what the build makes of it (0 on the usual builds; the other
\* end of the byte range stands for any other outcome)
Quantize(v, nanByte) ==
  LET cv == QClip(v, Q(0), Q(MaxByte))
  IN IF IsNaN(cv) THEN nanByte ELSE QFloor(cv)

NaNToByte == {0, MaxByte}

ClampCast(res, nanByte) ==
  [c \in DOMAIN res |-> [row \in DOMAIN res[c] |->
     [k \in DOMAIN res[c][row] |-> Quantize(res[c][row][k], nanByte)]]]


(***************************************************************************)
(* Inputs: what np.array(Image.open(path)) hands to remap_gradient.        *)
(***************************************************************************)
\* red values an erosion texture of the model may hold
CandSeq == <<0, 255, 100, 1, 254, 128, 200>>
Cands == {CandSeq[i] : i \in 1..NumCand}

\* a second green seen with red r; r + AltGreen(r) is odd, so the mean of the
\* two greens of r is not an integer
AltGreen(r) == (3 * r + 41) % 256

ErosionPixel(r, g, channels) ==
  IF channels = 1 THEN <<r>>
  ELSE IF channels = 2 THEN <<r, g>>
  ELSE <<r, g, 0, MaxByte>>

\* one pixel (r, r) per red of reds, then one pixel (r, AltGreen(r)) per red of twice
ErosionOf(reds, twice, channels) ==
  LET a == SortedSeq(reds)
      b == SortedSeq(twice)
  IN [channels |-> channels,
      pixels |-> [i \in 1..Len(a) |-> ErosionPixel(a[i], a[i], channels)]
                 \o [i \in 1..Len(b) |-> ErosionPixel(b[i], AltGreen(b[i]), channels)]]

AllReds == 0..(TableSize - 1)

ErosionInputs ==
  {ErosionOf(S, {}, ch) : S \in SUBSET Cands, ch \in {1, 2, 4}}
  \cup {ErosionOf(S, S, ch) : S \in SUBSET Cands, ch \in {2, 4}}
  \cup {ErosionOf(AllReds, T, 2) : T \in {{}, Cands}}

\* the 2x2 texture (0,0), (0,0), (255,255), (255,255)
ScenarioErosion ==
  [channels |-> 2, pixels |-> <<<<0, 0>>, <<0, 0>>, <<255, 255>>, <<255, 255>>>>]

PipelineErosions ==
  {ScenarioErosion, ErosionOf({}, {}, 2),
   ErosionOf({100}, {100}, 4), ErosionOf({0, 255}, {}, 1)}

\* a horizontal ramp 0..255 and a pattern that varies along both axes
GradientSample(pattern, w, x, y) ==
  IF pattern = 1 THEN (IF w > 1 THEN (MaxByte * x) \div (w - 1) ELSE MaxByte)
  ELSE (97 * x + 61 * y + 30) % 256

GradientPixel(v, channels) == IF channels = 1 THEN <<v>> ELSE <<v, MaxByte - v>>

\* ndim = 2: a (H, W) array; ndim = 3: a (H, W, channels) array
GradientOf(pattern, ndim, channels, w, h) ==
  [ndim |-> ndim, channels |-> channels, w |-> w, h |-> h,
   data |-> [y \in 0..(h - 1) |-> [x \in 0..(w - 1) |->
               GradientPixel(GradientSample(pattern, w, x, y), channels)]]]

GradientInputs ==
  {GradientOf(p, k[1], k[2], w, h) :
     p \in {1, 2}, k \in {<<2, 1>>, <<3, 2>>}, w \in 1..MaxW, h \in 1..MaxH}

\* <<fade_in_duration, fade_out_duration, animation_duration>>
ParamInputs ==
  {<<<<1, 2>>, Q(2), Q(2)>>,      \* the command line's defaults
   <<Q(2), Q(2), Q(4)>>,          \* remap_gradient's defaults
   <<Q(2), Q(0), Q(2)>>,
   <<Q(1), Q(1), Q(1)>>,
   <<Q(1), Q(0), Q(0)>>,
   <<Q(0), Q(1), Q(0)>>}

CoordInputs(max) == {Norm(k, 2) : k \in -2..(2 * max)} \cup {<<1, 3>>, <<5, 3>>}

(***************************************************************************)
(* State and actions.                                                      *)
(***************************************************************************)
NoTable == <<>>
NoResult == <<>>
NoError == [kind |-> "none", in |-> "none"]
NoSample == [err |-> "none", taps |-> <<>>, value |-> <<>>]

\* main() has loaded both images and parsed the three durations
InitWith(gradients) ==
  /\ pc = "start"
  /\ erosion \in PipelineErosions
  /\ gradient \in gradients
  /\ \E p \in ParamInputs : fade_in = p[1] /\ fade_out = p[2] /\ duration = p[3]
  /\ red_to_green = NoTable
  /\ col = 0
  /\ locals = <<>>
  /\ result = NoResult
  /\ written = <<>>
  /\ output = NoResult
  /\ error = NoError
  /\ sx = Q(0)
  /\ sy = Q(0)
  /\ sampled = NoSample

Init == InitWith(GradientInputs)

\* the two-channel gradients whose columns all differ
AnyOrderGradients == {GradientOf(2, 3, 2, w, h) : w \in 1..MaxW, h \in 1..MaxH}

InitAnyOrder == InitWith(AnyOrderGradients)

\* remap_gradient up to its loop (lines 110-124): the table is built, the
\* result buffer allocated; a missing channel raises at line 66 or 67
BuildTable ==
  /\ pc = "start"
  /\ IF ChannelOK(erosion, 0) /\ ChannelOK(erosion, 1)
     THEN /\ red_to_green' = build_red_to_green_map(erosion)
          /\ result' = Zeros(gradient)
          /\ written' = [c \in 0..(gradient.w - 1) |-> 0]
          /\ pc' = "columns"
          /\ error' = error
     ELSE /\ pc' = "failed"
          /\ error' = [kind |-> "IndexError", in |-> "build_red_to_green_map"]
          /\ UNCHANGED <<red_to_green, result, written>>
  /\ UNCHANGED <<erosion, gradient, fade_in, fade_out, duration, col, locals,
                 output, sx, sy, sampled>>

\* the loop body (lines 128-159) for column c; locals keeps what it computed
Step(c) ==
  \E nanInt \in NaNToInt :
    LET loc == ColumnLocals(gradient, red_to_green, fade_in, fade_out, duration, c)
        samples == SampleColumn(gradient, loc, nanInt)
    IN /\ locals' = [k \in DOMAIN locals \cup {c} |-> IF k = c THEN loc ELSE locals[k]]
       /\ IF \E row \in DOMAIN samples : samples[row].err # "none"
          THEN /\ pc' = "failed"
               /\ error' = [kind |-> "IndexError", in |-> "bilinear_sample"]
               /\ UNCHANGED <<result, written, col>>
          ELSE /\ result' = WriteColumn(result, c, samples)
               /\ written' = [written EXCEPT ![c] = @ + 1]
               /\ col' = col + 1
               /\ UNCHANGED <<pc, error>>
       /\ UNCHANGED <<erosion, gradient, fade_in, fade_out, duration,
                      red_to_green, output, sx, sy, sampled>>

\* for col in range(grad_w)
ProcessColumn ==
  /\ pc = "columns"
  /\ col < gradient.w
  /\ Step(col)

\* the columns taken in any order, each once
ProcessColumnAny ==
  /\ pc = "columns"
  /\ \E c \in 0..(gradient.w - 1) : written[c] = 0 /\ Step(c)

\* line 161
Finish ==
  /\ pc = "columns"
  /\ col = gradient.w
  /\ \E nanByte \in NaNToByte : output' = ClampCast(result, nanByte)
  /\ pc' = "done"
  /\ UNCHANGED <<erosion, gradient, fade_in, fade_out, duration, red_to_green,
                 col, locals, result, written, error, sx, sy, sampled>>

Next == BuildTable \/ ProcessColumn \/ Finish

Spec == Init /\ [][Next]_vars

NextAnyOrder == BuildTable \/ ProcessColumnAny \/ Finish

SpecAnyOrder == InitAnyOrder /\ [][NextAnyOrder]_vars

\* build_red_to_green_map alone, over the erosion textures of ErosionInputs
InitTable ==
  /\ pc = "start"
  /\ erosion \in ErosionInputs
  /\ gradient = GradientOf(1, 2, 1, 1, 1)
  /\ fade_in = <<1, 2>> /\ fade_out = Q(2) /\ duration = Q(2)
  /\ red_to_green = NoTable
  /\ col = 0
  /\ locals = <<>>
  /\ result = NoResult
  /\ written = <<>>
  /\ output = NoResult
  /\ error = NoError
  /\ sx = Q(0)
  /\ sy = Q(0)
  /\ sampled = NoSample

SpecTable == InitTable /\ [][BuildTable]_vars

\* bilinear_sample alone, at one coordinate pair
InitSample ==
  /\ pc = "sample"
  /\ erosion = ErosionOf({}, {}, 2)
  /\ gradient \in GradientInputs
  /\ fade_in = <<1, 2>> /\ fade_out = Q(2) /\ duration = Q(2)
  /\ red_to_green = NoTable
  /\ col = 0
  /\ locals = <<>>
  /\ result = NoResult
  /\ written = <<>>
  /\ output = NoResult
  /\ error = NoError
  /\ sx \in CoordInputs(MaxW)
  /\ sy \in CoordInputs(MaxH)
  /\ sampled = NoSample

Sample ==
  /\ pc = "sample"
  /\ \E nanInt \in NaNToInt : sampled' = bilinear_sample(gradient, sx, sy, nanInt)
  /\ pc' = "sampled"
  /\ UNCHANGED <<erosion, gradient, fade_in, fade_out, duration, red_to_green,
                 col, locals, result, written, output, error, sx, sy>>

SpecSample == InitSample /\ [][Sample]_vars


(***************************************************************************)
(* Properties of build_red_to_green_map (checked under SpecTable).         *)
(***************************************************************************)
Observed(ero) == {ero.pixels[i][1] : i \in 1..Len(ero.pixels)}

\* the sum of the greens of the pixels lo..hi of px whose red is r
RECURSIVE SumGreens(_, _, _, _)
SumGreens(px, r, lo, hi) ==
  IF lo > hi THEN 0
  ELSE IF lo = hi THEN (IF px[lo][1] = r THEN px[lo][2] ELSE 0)
  ELSE LET mid == (lo + hi) \div 2
       IN SumGreens(px, r, lo, mid) + SumGreens(px, r, mid + 1, hi)

CountRed(px, r) == Cardinality({i \in 1..Len(px) : px[i][1] = r})

\* q is the exact mean of the greens of the pixels whose red is r
IsMeanOf(q, ero, r) ==
  /\ IsNum(q)
  /\ CountRed(ero.pixels, r) > 0
  /\ q[1] * CountRed(ero.pixels, r) = SumGreens(ero.pixels, r, 1, Len(ero.pixels)) * q[2]

SetMax(S) == CHOOSE x \in S : \A y \in S : y <= x
SetMin(S) == CHOOSE x \in S : \A y \in S : x <= y

TableBuilt == pc = "columns"

\* C1: when every red value 0..255 occurs in the erosion texture, every entry
\* of the table is exactly the (unrounded) mean of the greens seen with that
\* red, so none comes from interpolation.
C1_FullCoverageGivesMeans ==
  (TableBuilt /\ Observed(erosion) = AllReds) =>
     \A r \in AllReds : IsMeanOf(red_to_green[r], erosion, r)

\* a table built from a texture holding every red, with a mean that is no integer
C1_Witness ==
  /\ TableBuilt
  /\ Observed(erosion) = AllReds
  /\ \E r \in AllReds : red_to_green[r][2] = 2

\* C2: when some but not all red values occur, a resolved entry is its mean,
\* an unresolved entry between two resolved ones lies on the straight line
\* through the nearest lower and upper resolved entries, an unresolved entry
\* outside them takes the nearest resolved entry; with only 0 -> 0 and
\* 255 -> 255 seen the table is the identity.
C2_GapsInterpolated ==
  LET obs == Observed(erosion)
      t == red_to_green
  IN (TableBuilt /\ obs # {} /\ obs # AllReds) =>
       /\ \A i \in AllReds :
            LET lower == {o \in obs : o < i}
                upper == {o \in obs : o > i}
            IN IF i \in obs THEN IsMeanOf(t[i], erosion, i)
               ELSE IF lower = {} THEN t[i] = t[SetMin(obs)]
               ELSE IF upper = {} THEN t[i] = t[SetMax(obs)]
               ELSE LET lo == SetMax(lower)
                        hi == SetMin(upper)
                    IN /\ IsNum(t[i])
                       /\ QMul(QSub(t[i], t[lo]), Q(hi - lo))
                            = QMul(QSub(t[hi], t[lo]), Q(i - lo))
       /\ (obs = {0, 255} /\ t[0] = Q(0) /\ t[255] = Q(255))
            => \A i \in AllReds : t[i] = Q(i)

\* a table built from (0,0) and (255,255) alone, filled in between
C2_Witness ==
  /\ TableBuilt
  /\ Observed(erosion) = {0, 255}
  /\ red_to_green[0] = Q(0)
  /\ red_to_green[255] = Q(255)
  /\ red_to_green[100] = Q(100)

\* C3: for a texture with at least 2 channels the call returns a table of
\* exactly 256 entries, none of them unresolved; with no pixel at all the
\* table is the identity ramp.
C3_TableComplete ==
  (pc # "start" /\ erosion.channels >= 2) =>
     /\ TableBuilt
     /\ DOMAIN red_to_green = 0..255
     /\ Cardinality(DOMAIN red_to_green) = 256
     /\ \A i \in DOMAIN red_to_green : IsNum(red_to_green[i])
     /\ (erosion.pixels = <<>>) => \A i \in 0..255 : red_to_green[i] = Q(i)

\* a table built from a texture without pixels
C3_Witness ==
  /\ TableBuilt
  /\ erosion.pixels = <<>>
  /\ red_to_green[255] = Q(255)

\* C4: a texture with fewer than 2 channels makes the call fail (the IndexError
\* numpy raises for the missing channel is the InvalidInput of the error
\* taxonomy) without producing a table, and the call fails in no other case.
C4_OnlyChannelFailure ==
  (pc # "start") =>
     /\ (erosion.channels < 2) =>
          /\ pc = "failed"
          /\ error = [kind |-> "IndexError", in |-> "build_red_to_green_map"]
          /\ red_to_green = NoTable
     /\ (pc = "failed") => erosion.channels < 2

\* the call has failed on a one-channel texture that holds pixels
C4_Witness ==
  /\ pc = "failed"
  /\ erosion.channels = 1
  /\ erosion.pixels # <<>>


(***************************************************************************)
(* Properties of bilinear_sample (checked under SpecSample).               *)
(***************************************************************************)
InUnit(a) == IsNum(a) /\ QLe(Q(0), a) /\ QLe(a, Q(1))

\* C7: for every real coordinate pair, inside the image or not, the sampler
\* reads only pixels with 0 <= x0 <= x1 <= W-1 and 0 <= y0 <= y1 <= H-1, its
\* four weights (1-fx)(1-fy), fx(1-fy), (1-fx)fy, fx*fy are each in [0,1] and
\* sum to 1, and the value of every channel is in [0,255].
C7_SampleInBounds ==
  (pc = "sampled") =>
     LET t == sampled.taps
     IN /\ sampled.err = "none"
        /\ 0 <= t.x0 /\ t.x0 <= t.x1 /\ t.x1 <= gradient.w - 1
        /\ 0 <= t.y0 /\ t.y0 <= t.y1 /\ t.y1 <= gradient.h - 1
        /\ InUnit(t.fx) /\ InUnit(t.fy)
        /\ t.w00 = QMul(QSub(Q(1), t.fx), QSub(Q(1), t.fy))
        /\ t.w10 = QMul(t.fx, QSub(Q(1), t.fy))
        /\ t.w01 = QMul(QSub(Q(1), t.fx), t.fy)
        /\ t.w11 = QMul(t.fx, t.fy)
        /\ InUnit(t.w00) /\ InUnit(t.w10) /\ InUnit(t.w01) /\ InUnit(t.w11)
        /\ QAdd(QAdd(t.w00, t.w10), QAdd(t.w01, t.w11)) = Q(1)
        /\ \A k \in 1..gradient.channels :
             /\ IsNum(sampled.value[k])
             /\ QLe(Q(0), sampled.value[k])
             /\ QLe(sampled.value[k], Q(255))

\* a sample taken left of the image and below its last row
C7_Witness ==
  /\ pc = "sampled"
  /\ sx[1] < 0
  /\ QLt(Q(gradient.h - 1), sy)
  /\ gradient.w > 1
  /\ sampled.err = "none"
  /\ Len(sampled.value) = gradient.channels

(***************************************************************************)
(* Properties of remap_gradient (checked under Spec).                      *)
(***************************************************************************)
Processed == DOMAIN locals
Rows == 0..(gradient.h - 1)
GuardFired(l) == QLe(l.computed_key_release, QAdd(l.key_press, Epsilon))
RemapFailed == pc = "failed" /\ error.in = "bilinear_sample"

ChannelMin(k) == SetMin({gradient.data[y][x][k] : y \in Rows, x \in 0..(gradient.w - 1)})
ChannelMax(k) == SetMax({gradient.data[y][x][k] : y \in Rows, x \in 0..(gradient.w - 1)})

\* C5: in a column whose computed key_release is <= key_press + 0.001 the
\* key_release used is key_press + 0.001, so in every column the window is at
\* least 0.001 wide and global_time does not decrease down the rows; with
\* such parameters the run raises no exception and every output sample lies
\* between the least and the greatest sample of its channel of the gradient.
C5_DegenerateGuard ==
  /\ \A c \in Processed :
       LET l == locals[c]
       IN /\ GuardFired(l) => l.key_release = QAdd(l.key_press, Epsilon)
          /\ QLe(Epsilon, QSub(l.key_release, l.key_press))
          /\ \A r1, r2 \in Rows :
               r1 <= r2 => QLe(l.global_times[r1], l.global_times[r2])
  /\ (\E c \in Processed : GuardFired(locals[c])) =>
       /\ ~RemapFailed
       /\ (pc = "done") =>
            \A c \in DOMAIN output : \A row \in Rows : \A k \in 1..gradient.channels :
               /\ ChannelMin(k) <= output[c][row][k]
               /\ output[c][row][k] <= ChannelMax(k)

\* C6: for non-negative fade_in, fade_out and animation_duration (0 included)
\* the run meets no runtime failure, and every source coordinate it computes
\* is a number with 0 <= src_x <= W-1 and 0 <= src_y <= H-1.
C6_NoRuntimeFailure ==
  /\ ~RemapFailed
  /\ \A c \in Processed : \A row \in Rows :
       LET x == locals[c].src_xs[row]
           y == locals[c].src_ys[row]
       IN /\ IsNum(x) /\ QLe(Q(0), x) /\ QLe(x, Q(gradient.w - 1))
          /\ IsNum(y) /\ QLe(Q(0), y) /\ QLe(y, Q(gradient.h - 1))

InScenario ==
  /\ erosion = ScenarioErosion
  /\ gradient = GradientOf(1, 2, 1, 4, 4)
  /\ fade_in = <<1, 2>> /\ fade_out = Q(2) /\ duration = Q(2)

Is4x4(out) ==
  /\ DOMAIN out = 0..3
  /\ \A c \in 0..3 : DOMAIN out[c] = 0..3 /\ \A row \in 0..3 : Len(out[c][row]) = 1

\* C8 as stated: in the end-to-end scenario the output is 4x4, column 0
\* starts sampling at source column 0, and column 3 (attack 1) is sampled
\* with release 1.0, key_release = fade_out_start + fade_out = 2.0, its source
\* x-coordinates lying at or above those of column 0.
C8_AsStated ==
  (InScenario /\ pc = "done") =>
     /\ Is4x4(output)
     /\ locals[0].attack = Q(0)
     /\ locals[0].src_xs[0] = Q(0)
     /\ locals[3].attack = Q(1)
     /\ locals[3].release = Q(1)
     /\ locals[3].key_release = QAdd(QSub(duration, fade_out), fade_out)
     /\ \A row \in 0..3 : QLe(locals[0].src_xs[row], locals[3].src_xs[row])

\* C8, amended: in the end-to-end scenario the output is 4x4; column 0
\* (attack 0, red 255) starts sampling at source column 0 and is the column
\* sampled with release 1.0, key_release = fade_out_start + fade_out = 2.0, its
\* src_x running from 0 to 3; column 3 (attack 1, red 0) is sampled with
\* release 0 and the guarded key_release = key_press + 0.001 = 0.501, its src_x
\* staying within [0.75, 0.7515], above column 0's only at row 0.
C8_Scenario ==
  (InScenario /\ pc = "done") =>
     /\ Is4x4(output)
     /\ locals[0].attack = Q(0)
     /\ locals[0].red_value = 255
     /\ locals[0].src_xs[0] = Q(0)
     /\ locals[0].release = Q(1)
     /\ locals[0].key_release = QAdd(QSub(duration, fade_out), fade_out)
     /\ locals[0].key_release = Q(2)
     /\ \A row \in 0..3 : locals[0].src_xs[row] = Q(row)
     /\ locals[3].attack = Q(1)
     /\ locals[3].red_value = 0
     /\ locals[3].release = Q(0)
     /\ locals[3].key_release = QAdd(locals[3].key_press, Epsilon)
     /\ locals[3].key_release = <<501, 1000>>
     /\ \A row \in 0..3 :
          /\ QLe(<<3, 4>>, locals[3].src_xs[row])
          /\ QLe(locals[3].src_xs[row], <<1503, 2000>>)
     /\ QLt(locals[0].src_xs[0], locals[3].src_xs[0])
     /\ \A row \in 1..3 : QLt(locals[3].src_xs[row], locals[0].src_xs[row])

\* the scenario has run to its end: column 0 copies the ramp, column 3 is flat
C8_Witness ==
  /\ InScenario
  /\ pc = "done"
  /\ \A row \in 0..3 : output[0][row] = <<85 * row>>
  /\ \A row \in 0..3 : output[3][row] = <<63>>

\* C9: the output has the width, height and channel count of the gradient,
\* every sample of it is an integer in 0..255, and where the bilinear sample
\* v of the pixel is a real number the output sample is floor(clamp(v, 0, 255)),
\* at most 1 away from the clamped value rounded to nearest.
C9_FloorAfterClamp ==
  (pc = "done") =>
     /\ DOMAIN output = 0..(gradient.w - 1)
     /\ \A c \in DOMAIN output :
          /\ DOMAIN output[c] = Rows
          /\ \A row \in Rows :
               /\ DOMAIN output[c][row] = 1..gradient.channels
               /\ \A k \in 1..gradient.channels :
                    LET v == result[c][row][k]
                        o == output[c][row][k]
                    IN /\ o \in 0..255
                       /\ IsNum(v) =>
                            /\ o = QFloor(QClip(v, Q(0), Q(255)))
                            /\ Abs(o - QRound(QClip(v, Q(0), Q(255)))) <= 1

\* a finished run with a sample whose floor and nearest integer differ
C9_Witness ==
  /\ pc = "done"
  /\ \E c \in DOMAIN output : \E row \in Rows : \E k \in 1..gradient.channels :
       LET v == result[c][row][k]
       IN /\ IsNum(v)
          /\ v[2] > 1
          /\ output[c][row][k] = QFloor(v)
          /\ QRound(v) = QFloor(v) + 1


(***************************************************************************)
(* Column independence (checked under SpecAnyOrder).                       *)
(***************************************************************************)
\* what the left-to-right loop leaves in the result buffer after columns 0..c-1
\* (a run that completes met no IndexError, so a nan index was cast to 0)
RECURSIVE SequentialResult(_, _)
SequentialResult(res, c) ==
  IF c = gradient.w THEN res
  ELSE SequentialResult(
         WriteColumn(res, c,
           SampleColumn(gradient,
             ColumnLocals(gradient, red_to_green, fade_in, fade_out, duration, c), 0)),
         c + 1)

InRemap == pc \in {"columns", "done"}

\* C10: during the resampling the erosion texture, the gradient and the table
\* never change; every output column is written once, holds zeros until then
\* and afterwards the samples that depend on the gradient, the table, the
\* three durations and its own index alone; whatever the order of the columns,
\* the finished buffer is the one the left-to-right loop produces.
C10_ColumnsIndependent ==
  /\ [][InRemap => /\ erosion' = erosion
                   /\ gradient' = gradient
                   /\ red_to_green' = red_to_green]_vars
  /\ [][InRemap => \A c \in DOMAIN written :
                     /\ written'[c] \in {written[c], written[c] + 1}
                     /\ written'[c] = written[c] => result'[c] = result[c]]_vars
  /\ [](InRemap =>
          /\ \A c \in DOMAIN written :
               /\ written[c] <= 1
               /\ written[c] = 0 => result[c] = Zeros(gradient)[c]
               /\ written[c] = 1 =>
                    result[c] = SequentialResult(Zeros(gradient), 0)[c]
          /\ (col = gradient.w) =>
               /\ \A c \in DOMAIN written : written[c] = 1
               /\ result = SequentialResult(Zeros(gradient), 0))

\* the last column has been written before the first one
C10_Witness ==
  /\ pc = "columns"
  /\ gradient.w >= 3
  /\ written[gradient.w - 1] = 1
  /\ written[0] = 0
  /\ result[gradient.w - 1] # Zeros(gradient)[gradient.w - 1]
  /\ result[0] = Zeros(gradient)[0]

====
